---- MODULE Spec2Model ----
(***************************************************************************)
(* A model of gravmag/convolve.py: dense BTTB assembly (generic_BTTB),     *)
(* circulant embedding of a Toeplitz block (Circulant_from_Toeplitz), the  *)
(* BCCB embedding (BCCB_from_BTTB, embedding_BCCB_first_column), its       *)
(* diagonalisation (eigenvalues_BCCB) and the fast product                 *)
(* (product_BCCB_vector, transposition_factor).                            *)
(*                                                                         *)
(* numpy arrays are sequences: a 1D array is a sequence of integers, a 2D  *)
(* array a sequence of rows.  Python index k is sequence index k+1.  A     *)
(* call returns a record [exc, val]: exc = "" and val the returned value,  *)
(* or exc the name of the exception raised.  Python's None is <<>>.        *)
(***************************************************************************)
EXTENDS Integers, Sequences, FiniteSets, TLC

\* ------------------------------------------------------------------ bounds
MaxQ == 3
MaxP == 3
MaxA == 2

\* ------------------------------------------------------- python / numpy
None == <<>>

Ok(x) == [exc |-> "", val |-> x]

Raise(e) == [exc |-> e, val |-> <<>>]

Pending == [exc |-> "pending", val |-> <<>>]

Returned(r) == r.exc = ""

\* a[k] for a python index k, negative indices counting from the end
At(a, k) == IF k < 0 THEN a[Len(a) + k + 1] ELSE a[k + 1]

\* a[::-1]
Reverse(a) == [m \in 1..Len(a) |-> a[Len(a) + 1 - m]]

\* a[-1:0:-1] (the same slice as a[:0:-1]): a reversed, without a[0]
RevTail(a) == [m \in 1..(Len(a) - 1) |-> a[Len(a) + 1 - m]]

\* -a for a 1D array
Neg(a) == [m \in 1..Len(a) |-> 0 - a[m]]

\* -a for a stack of 2D arrays
NegBlocks(bs) == [k \in 1..Len(bs) |-> [i \in 1..Len(bs[k]) |-> Neg(bs[k][i])]]

\* numpy computes an array when it builds it: the sequence, evaluated
Array1(a) == a \o <<>>

Array2(x) == [i \in 1..Len(x) |-> x[i] \o <<>>] \o <<>>

\* np.zeros(n)
Zeros(n) == [m \in 1..n |-> 0]

\* np.zeros((n, m))
Zeros2(n, m) == [i \in 1..n |-> Zeros(m)]

\* np.ogrid[0:n, n-1:-1:-1] summed: ind[i][j] = i + (n-1-j), python indices
OuterSumDescending(n) == [i \in 1..n |-> [j \in 1..n |-> (i - 1) + (n - 1 - (j - 1))]]

\* np.ogrid[0:n, 0:-n:-1] summed: ind[i][j] = i - j, python indices
OuterSumNegative(n) == [i \in 1..n |-> [j \in 1..n |-> (i - 1) - (j - 1)]]

\* a[ind] for an integer index matrix ind (fancy indexing along axis 0)
Gather(a, ind) == [i \in 1..Len(ind) |-> [j \in 1..Len(ind[i]) |-> At(a, ind[i][j])]]

\* np.hstack(np.hstack(A)) for A of shape (n, n, p, p): A[r][c][i][j] goes
\* to row r*p + i, column c*p + j
HStackHStack(A, n, p) ==
  [a \in 1..(n * p) |->
    [b \in 1..(n * p) |->
      A[((a - 1) \div p) + 1][((b - 1) \div p) + 1][((a - 1) % p) + 1][((b - 1) % p) + 1]]]

\* x.ravel() of a 2D array
Ravel(x) ==
  IF Len(x) = 0 THEN <<>>
  ELSE [m \in 1..(Len(x) * Len(x[1])) |->
         x[((m - 1) \div Len(x[1])) + 1][((m - 1) % Len(x[1])) + 1]]

\* np.reshape(a, (n, m)) of a 1D array, row-major
Reshape(a, n, m) == [i \in 1..n |-> [j \in 1..m |-> a[(i - 1) * m + j]]]

\* x.T
Transpose(x) ==
  IF Len(x) = 0 THEN <<>>
  ELSE [j \in 1..Len(x[1]) |-> [i \in 1..Len(x) |-> x[i][j]]]

\* a[:n] and a[n:]
Take(a, n) == [m \in 1..(IF n < Len(a) THEN n ELSE Len(a)) |-> a[m]]

Drop(a, n) == [m \in 1..(IF n < Len(a) THEN Len(a) - n ELSE 0) |-> a[n + m]]

RECURSIVE SumUpTo(_, _)
SumUpTo(s, n) == IF n = 0 THEN 0 ELSE s[n] + SumUpTo(s, n - 1)

\* A @ x for a dense matrix A and a vector x
MatVec(A, x) ==
  [a \in 1..Len(A) |-> SumUpTo([b \in 1..Len(x) |-> A[a][b] * x[b]], Len(x))]

\* ------------------------------------------------- validation (check.py)
SymmetryTags == {"gene", "symm", "skew"}

\* check.is_integer(x, positive=True)
is_integer_positive(x) == x \in Nat /\ x > 0

\* check.is_array(x, ndim=1)
is_array_1d(x) == \A m \in 1..Len(x) : x[m] \in Int

\* check.is_array(x, ndim=2): rows of one common length
is_array_2d(x) ==
  /\ Len(x) > 0
  /\ \A i \in 1..Len(x) : Len(x[i]) = Len(x[1]) /\ is_array_1d(x[i])

\* check.Toeplitz_metadata(symmetry, column, row): "" or the exception
Toeplitz_metadata(symmetry, column, row) ==
  IF symmetry \notin SymmetryTags THEN "ValueError"
  ELSE IF ~(is_array_1d(column) /\ Len(column) > 0) THEN "ValueError"
  ELSE IF symmetry = "gene"
    THEN IF row # None \/ Len(column) = 1
           THEN IF Len(row) = Len(column) - 1 /\ is_array_1d(row) THEN "" ELSE "ValueError"
           ELSE "ValueError"
    ELSE ""

\* check.BTTB_metadata(symmetry_structure, symmetry_blocks, nblocks, columns, rows)
BTTB_metadata(symmetry_structure, symmetry_blocks, nblocks, columns, rows) ==
  IF symmetry_structure \notin SymmetryTags \/ symmetry_blocks \notin SymmetryTags
    THEN "ValueError"
  ELSE IF ~is_integer_positive(nblocks) THEN "ValueError"
  ELSE IF ~is_array_2d(columns) THEN "ValueError"
  ELSE IF Len(columns) # (IF symmetry_structure = "gene" THEN 2 * nblocks - 1 ELSE nblocks)
    THEN "ValueError"
  ELSE IF symmetry_blocks = "gene"
    THEN IF rows = None THEN "ValueError"
         ELSE IF Len(rows) = Len(columns)
                 /\ \A k \in 1..Len(rows) :
                      Len(rows[k]) = Len(columns[1]) - 1 /\ is_array_1d(rows[k])
                THEN "" ELSE "ValueError"
    ELSE ""

\* ------------------------------------------------------------ generic_BTTB
\* np.stack(blocks): fails on an empty list
StackFails(blocks) == Len(blocks) = 0

\* one Toeplitz block: np.concatenate((reflected, column))[ind_blocks]
ToeplitzBlock(reflected, column) ==
  Gather(reflected \o column, OuterSumDescending(Len(column)))

\* BlocksSymm with the reflected part negated, as in the skew branches
BlocksSymmNegated(columns) ==
  [k \in 1..Len(columns) |-> ToeplitzBlock(Neg(RevTail(columns[k])), columns[k])]

\* the blocks of a symmetric-block table: reflected = column[-1:0:-1]
BlocksSymm(columns) ==
  [k \in 1..Len(columns) |-> ToeplitzBlock(RevTail(columns[k]), columns[k])]

\* the blocks of a skew-block table: reflected = -column[-1:0:-1]
BlocksSkew(columns) ==
  [k \in 1..Len(columns) |-> ToeplitzBlock(Neg(RevTail(columns[k])), columns[k])]

\* the blocks of a generic-block table: zip(columns, rows), reflected = row[::-1]
BlocksGene(columns, rows) ==
  [k \in 1..(IF Len(rows) < Len(columns) THEN Len(rows) ELSE Len(columns)) |->
    ToeplitzBlock(Reverse(rows[k]), columns[k])]

\* np.concatenate((np.stack(blocks)[-1:0:-1], np.stack(blocks)))
ConcatSymm(blocks) == RevTail(blocks) \o blocks

\* ConcatSkew without the sign of the mirrored blocks
ConcatSkewUnsigned(blocks) == RevTail(blocks) \o blocks

\* np.concatenate((-np.stack(blocks)[-1:0:-1], np.stack(blocks)))
ConcatSkew(blocks) == NegBlocks(RevTail(blocks)) \o blocks

\* np.concatenate((np.stack(blocks_i1)[::-1], np.stack(blocks_1j)))
ConcatGene(blocks_i1, blocks_1j) == Reverse(blocks_i1) \o blocks_1j

\* T = np.hstack(np.hstack(concatenated_blocks[indices]))
AssembleT(concatenated_blocks, nblocks, npoints_per_block) ==
  HStackHStack(Gather(concatenated_blocks, OuterSumDescending(nblocks)),
               nblocks, npoints_per_block)

generic_BTTB(symmetry_structure, symmetry_blocks, nblocks, columns, rows, check_input) ==
  LET chk == IF check_input
               THEN BTTB_metadata(symmetry_structure, symmetry_blocks, nblocks, columns, rows)
               ELSE ""
      npoints_per_block == Len(columns[1])
  IN
  IF chk # "" THEN Raise(chk)
  ELSE IF symmetry_structure = "symm" THEN
    IF symmetry_blocks = "symm" THEN
      Ok(AssembleT(ConcatSymm(BlocksSymm(columns)), nblocks, npoints_per_block))
    ELSE IF symmetry_blocks = "skew" THEN
      Ok(AssembleT(ConcatSymm(BlocksSkew(columns)), nblocks, npoints_per_block))
    ELSE IF rows = None THEN Raise("TypeError")
    ELSE Ok(AssembleT(ConcatSymm(BlocksGene(columns, rows)), nblocks, npoints_per_block))
  ELSE IF symmetry_structure = "skew" THEN
    IF symmetry_blocks = "symm" THEN
      Ok(AssembleT(ConcatSkew(BlocksSymm(columns)), nblocks, npoints_per_block))
    ELSE IF symmetry_blocks = "skew" THEN
      Ok(AssembleT(ConcatSkew(BlocksSkew(columns)), nblocks, npoints_per_block))
    ELSE IF rows = None THEN Raise("TypeError")
    ELSE Ok(AssembleT(ConcatSkew(BlocksGene(columns, rows)), nblocks, npoints_per_block))
  ELSE
    IF symmetry_blocks = "symm" THEN
      LET blocks_1j == BlocksSymm(Take(columns, nblocks))
          blocks_i1 == BlocksSymm(Drop(columns, nblocks))
      IN IF StackFails(blocks_i1) \/ StackFails(blocks_1j) THEN Raise("ValueError")
         ELSE Ok(AssembleT(ConcatGene(blocks_i1, blocks_1j), nblocks, npoints_per_block))
    ELSE IF symmetry_blocks = "skew" THEN
      LET blocks_1j == BlocksSkew(Take(columns, nblocks))
          blocks_i1 == BlocksSkew(Drop(columns, nblocks))
      IN IF StackFails(blocks_i1) \/ StackFails(blocks_1j) THEN Raise("ValueError")
         ELSE Ok(AssembleT(ConcatGene(blocks_i1, blocks_1j), nblocks, npoints_per_block))
    ELSE IF rows = None THEN Raise("TypeError")
    ELSE
      LET blocks_1j == BlocksGene(Take(columns, nblocks), Take(rows, nblocks))
          blocks_i1 == BlocksGene(Drop(columns, nblocks), Drop(rows, nblocks))
      IN IF StackFails(blocks_i1) \/ StackFails(blocks_1j) THEN Raise("ValueError")
         ELSE Ok(AssembleT(ConcatGene(blocks_i1, blocks_1j), nblocks, npoints_per_block))

\* ------------------------------------------------- Circulant_from_Toeplitz
\* CirculantFirstColumn with the row part left in the order of the column
CirculantFirstColumnUnreversed(symmetry, column, row) ==
  IF symmetry = "symm" THEN column \o <<0>> \o Tail(column)
  ELSE IF symmetry = "skew" THEN column \o <<0>> \o Neg(Tail(column))
  ELSE column \o <<0>> \o row

\* CirculantFirstColumn with the skew branch taking the symm expression
CirculantFirstColumnUnsigned(symmetry, column, row) ==
  IF symmetry = "symm" THEN column \o <<0>> \o RevTail(column)
  ELSE IF symmetry = "skew" THEN column \o <<0>> \o RevTail(column)
  ELSE column \o <<0>> \o Reverse(row)

\* the first column C of the embedding circulant
CirculantFirstColumn(symmetry, column, row) ==
  IF symmetry = "symm" THEN column \o <<0>> \o RevTail(column)
  ELSE IF symmetry = "skew" THEN column \o <<0>> \o Neg(RevTail(column))
  ELSE column \o <<0>> \o Reverse(row)

Circulant_from_Toeplitz(symmetry, column, row, full, check_input) ==
  LET chk == IF check_input THEN Toeplitz_metadata(symmetry, column, row) ELSE ""
      P == Len(column)
      C == CirculantFirstColumn(symmetry, column, row)
  IN
  IF chk # "" THEN Raise(chk)
  ELSE IF symmetry \notin {"symm", "skew"} /\ row = None /\ P > 1 THEN Raise("TypeError")
  ELSE IF full THEN Ok(Gather(C, OuterSumNegative(2 * P)))
  ELSE Ok(C)

\* -------------------------------------------------- exact 2D transforms
\* fft2 and ifft2 in exact arithmetic: the discrete Fourier transform over
\* the prime field Z_Prime, whose element Root generates the multiplicative
\* group, so that a primitive n-th root of unity exists for every grid side
\* n dividing Prime - 1.  A transformed array carries halfpow, the number of
\* factors 1/sqrt(size) that norm="ortho" has put on it.
Prime == 7681

Root == 17

RECURSIVE PowMod(_, _)
PowMod(b, e) ==
  IF e = 0 THEN 1
  ELSE IF e % 2 = 0 THEN PowMod((b * b) % Prime, e \div 2)
  ELSE (b * PowMod((b * b) % Prime, e \div 2)) % Prime

MaxSide == 2 * (IF MaxQ > MaxP THEN MaxQ ELSE MaxP)

\* Twiddle[n][e + 1] = w^e for w the primitive n-th root of unity
Twiddle ==
  [n \in 1..MaxSide |->
    [e \in 1..n |->
      IF (Prime - 1) % n = 0 THEN PowMod(PowMod(Root, (Prime - 1) \div n), e - 1) ELSE 0]]

\* the transform along the last axis; dir = 1 forward, dir = -1 backward
DFTRows(X, dir) ==
  Array2([i \in 1..Len(X) |->
    [k \in 1..Len(X[i]) |->
      SumUpTo([j \in 1..Len(X[i]) |->
                (X[i][j] % Prime)
                  * Twiddle[Len(X[i])][((dir * (k - 1) * (j - 1)) % Len(X[i])) + 1]],
              Len(X[i])) % Prime]])

\* the transform along the first axis
DFTColumns(R, dir) ==
  Array2([k1 \in 1..Len(R) |->
    [k2 \in 1..Len(R[1]) |->
      SumUpTo([i \in 1..Len(R) |->
                R[i][k2] * Twiddle[Len(R)][((dir * (k1 - 1) * (i - 1)) % Len(R)) + 1]],
              Len(R)) % Prime]])

\* the unnormalised 2D transform of X
DFT2(X, dir) == DFTColumns(DFTRows(X, dir), dir)

\* fft2(x=X, norm="ortho")
fft2_ortho(X) == [data |-> DFT2(X, 1), halfpow |-> 1]

\* ifft2(x=F, norm="ortho")
ifft2_ortho(F) == [data |-> DFT2(F.data, -1), halfpow |-> F.halfpow + 1]

\* np.sqrt(size) * F
TimesSqrtSize(F) == [data |-> F.data, halfpow |-> F.halfpow - 1]

\* A * B, element-wise
Hadamard(A, B) ==
  [data |-> Array2([i \in 1..Len(A.data) |->
              [j \in 1..Len(A.data[i]) |-> (A.data[i][j] * B.data[i][j]) % Prime]]),
   halfpow |-> A.halfpow + B.halfpow]

\* the residue x as an integer of least absolute value
Signed(x) == IF 2 * x > Prime THEN x - Prime ELSE x

\* F.real: the pending factors size^(-halfpow/2) applied
RealPart(F) ==
  LET size == Len(F.data) * Len(F.data[1])
      scale == PowMod(PowMod(size % Prime, Prime - 2), F.halfpow \div 2)
  IN Array2([i \in 1..Len(F.data) |->
       [j \in 1..Len(F.data[i]) |-> Signed((F.data[i][j] * scale) % Prime)]])

\* X[:n, :m]
TopLeft(X, n, m) == [i \in 1..n |-> [j \in 1..m |-> X[i][j]]]

\* np.hstack([X, np.zeros((rows of X, m))])
PadRight(X, m) == [i \in 1..Len(X) |-> X[i] \o Zeros(m)]

\* np.vstack([X, np.zeros((n, columns of X))])
PadBelow(X, n) == X \o Zeros2(n, Len(X[1]))

\* --------------------------------------------- embedding_BCCB_first_column
PureSymmetries == {"skew-skew", "skew-symm", "symm-skew", "symm-symm"}

RECURSIVE Concatenate(_)
Concatenate(pieces) ==
  IF Len(pieces) = 0 THEN <<>> ELSE Head(pieces) \o Concatenate(Tail(pieces))

\* HalfBlock without the zero between lead and tail
HalfBlockUnpadded(lead, tail) == lead \o tail

\* np.hstack([lead, 0, tail])
HalfBlock(lead, tail) == lead \o <<0>> \o tail

\* EmbeddingPieces with backward tails that take the sign of the blocks only
EmbeddingPiecesBlockSign(b_parts, npoints_per_block, symmetry) ==
  LET back == RevTail(b_parts)
      spacer == <<Zeros(2 * npoints_per_block)>>
  IN
  IF symmetry = "skew-skew" THEN
    [k \in 1..Len(b_parts) |-> HalfBlock(b_parts[k], Neg(RevTail(b_parts[k])))]
      \o spacer
      \o [k \in 1..Len(back) |-> HalfBlock(Neg(back[k]), Neg(RevTail(back[k])))]
  ELSE IF symmetry = "skew-symm" THEN
    [k \in 1..Len(b_parts) |-> HalfBlock(b_parts[k], RevTail(b_parts[k]))]
      \o spacer
      \o [k \in 1..Len(back) |-> HalfBlock(Neg(back[k]), RevTail(back[k]))]
  ELSE IF symmetry = "symm-skew" THEN
    [k \in 1..Len(b_parts) |-> HalfBlock(b_parts[k], Neg(RevTail(b_parts[k])))]
      \o spacer
      \o [k \in 1..Len(back) |-> HalfBlock(back[k], Neg(RevTail(back[k])))]
  ELSE IF symmetry = "symm-symm" THEN
    [k \in 1..Len(b_parts) |-> HalfBlock(b_parts[k], RevTail(b_parts[k]))]
      \o spacer
      \o [k \in 1..Len(back) |-> HalfBlock(back[k], RevTail(back[k]))]
  ELSE <<>>

\* the list c0 of pieces, before concatenation
EmbeddingPieces(b_parts, npoints_per_block, symmetry) ==
  LET back == RevTail(b_parts)
      spacer == <<Zeros(2 * npoints_per_block)>>
  IN
  IF symmetry = "skew-skew" THEN
    [k \in 1..Len(b_parts) |-> HalfBlock(b_parts[k], Neg(RevTail(b_parts[k])))]
      \o spacer
      \o [k \in 1..Len(back) |-> HalfBlock(Neg(back[k]), RevTail(back[k]))]
  ELSE IF symmetry = "skew-symm" THEN
    [k \in 1..Len(b_parts) |-> HalfBlock(b_parts[k], RevTail(b_parts[k]))]
      \o spacer
      \o [k \in 1..Len(back) |-> HalfBlock(Neg(back[k]), Neg(RevTail(back[k])))]
  ELSE IF symmetry = "symm-skew" THEN
    [k \in 1..Len(b_parts) |-> HalfBlock(b_parts[k], Neg(RevTail(b_parts[k])))]
      \o spacer
      \o [k \in 1..Len(back) |-> HalfBlock(back[k], Neg(RevTail(back[k])))]
  ELSE IF symmetry = "symm-symm" THEN
    [k \in 1..Len(b_parts) |-> HalfBlock(b_parts[k], RevTail(b_parts[k]))]
      \o spacer
      \o [k \in 1..Len(back) |-> HalfBlock(back[k], RevTail(back[k]))]
  ELSE <<>>

\* a dictionary: its keys in insertion order, and its items
BCCB0_keys == <<"first_column", "nblocks", "npoints_per_block", "symmetry">>

\* embedding_BCCB_first_column without the test of the symmetry tag
embedding_BCCB_first_columnAnySymmetry(b0, nblocks, npoints_per_block, symmetry) ==
  IF ~is_array_1d(b0) THEN Raise("ValueError")
  ELSE IF ~is_integer_positive(nblocks) THEN Raise("ValueError")
  ELSE IF ~is_integer_positive(npoints_per_block) THEN Raise("ValueError")
  ELSE IF Len(b0) # nblocks * npoints_per_block THEN Raise("ValueError")
  ELSE
    LET b_parts == Reshape(b0, nblocks, npoints_per_block)
        c0 == Concatenate(EmbeddingPieces(b_parts, npoints_per_block, symmetry))
    IN Ok([keys |-> BCCB0_keys,
           first_column |-> c0,
           nblocks |-> nblocks,
           npoints_per_block |-> npoints_per_block,
           symmetry |-> symmetry])

embedding_BCCB_first_column(b0, nblocks, npoints_per_block, symmetry) ==
  IF ~is_array_1d(b0) THEN Raise("ValueError")
  ELSE IF ~is_integer_positive(nblocks) THEN Raise("ValueError")
  ELSE IF ~is_integer_positive(npoints_per_block) THEN Raise("ValueError")
  ELSE IF Len(b0) # nblocks * npoints_per_block THEN Raise("ValueError")
  ELSE IF symmetry \notin PureSymmetries THEN Raise("ValueError")
  ELSE
    LET b_parts == Reshape(b0, nblocks, npoints_per_block)
        c0 == Concatenate(EmbeddingPieces(b_parts, npoints_per_block, symmetry))
    IN Ok([keys |-> BCCB0_keys,
           first_column |-> c0,
           nblocks |-> nblocks,
           npoints_per_block |-> npoints_per_block,
           symmetry |-> symmetry])

\* -------------------------------------------------------- eigenvalues_BCCB
AllSymmetries ==
  {"skew-skew", "skew-symm", "symm-skew", "symm-symm", "gene-symm",
   "symm-gene", "gene-skew", "skew-gene", "gene-gene"}

Orderings == {"row", "column"}

BCCB_eigen_keys == <<"eigenvalues", "ordering", "nblocks", "npoints_per_block", "symmetry">>

\* EigenGrid without the transposition of the column ordering
EigenGridUntransposed(c0, nblocks, npoints_per_block, ordering) ==
  Reshape(c0, 2 * nblocks, 2 * npoints_per_block)

\* the grid G: c0 reshaped according to ordering
EigenGrid(c0, nblocks, npoints_per_block, ordering) ==
  IF ordering = "row" THEN Reshape(c0, 2 * nblocks, 2 * npoints_per_block)
  ELSE Transpose(Reshape(c0, 2 * nblocks, 2 * npoints_per_block))

\* eigenvalues_BCCB without the test of ordering
eigenvalues_BCCBAnyOrdering(BCCB0, ordering) ==
  IF BCCB0.keys # BCCB0_keys THEN Raise("ValueError")
  ELSE
    LET c0 == BCCB0.first_column
        nblocks == BCCB0.nblocks
        npoints_per_block == BCCB0.npoints_per_block
        symmetry == BCCB0.symmetry
    IN
    IF ~is_array_1d(c0) THEN Raise("ValueError")
    ELSE IF ~is_integer_positive(nblocks) THEN Raise("ValueError")
    ELSE IF ~is_integer_positive(npoints_per_block) THEN Raise("ValueError")
    ELSE IF Len(c0) # 4 * nblocks * npoints_per_block THEN Raise("ValueError")
    ELSE IF symmetry \notin AllSymmetries THEN Raise("ValueError")
    ELSE
      LET G == EigenGrid(c0, nblocks, npoints_per_block, ordering)
          L == TimesSqrtSize(fft2_ortho(G))
      IN Ok([keys |-> BCCB_eigen_keys,
             eigenvalues |-> L,
             ordering |-> ordering,
             nblocks |-> nblocks,
             npoints_per_block |-> npoints_per_block,
             symmetry |-> symmetry])

eigenvalues_BCCB(BCCB0, ordering) ==
  IF BCCB0.keys # BCCB0_keys THEN Raise("ValueError")
  ELSE
    LET c0 == BCCB0.first_column
        nblocks == BCCB0.nblocks
        npoints_per_block == BCCB0.npoints_per_block
        symmetry == BCCB0.symmetry
    IN
    IF ~is_array_1d(c0) THEN Raise("ValueError")
    ELSE IF ~is_integer_positive(nblocks) THEN Raise("ValueError")
    ELSE IF ~is_integer_positive(npoints_per_block) THEN Raise("ValueError")
    ELSE IF Len(c0) # 4 * nblocks * npoints_per_block THEN Raise("ValueError")
    ELSE IF symmetry \notin AllSymmetries THEN Raise("ValueError")
    ELSE IF ordering \notin Orderings THEN Raise("ValueError")
    ELSE
      LET G == EigenGrid(c0, nblocks, npoints_per_block, ordering)
          L == TimesSqrtSize(fft2_ortho(G))
      IN Ok([keys |-> BCCB_eigen_keys,
             eigenvalues |-> L,
             ordering |-> ordering,
             nblocks |-> nblocks,
             npoints_per_block |-> npoints_per_block,
             symmetry |-> symmetry])

\* the argument BCCB0 as eigenvalues_BCCB leaves it: the function only reads
\* the dictionary, reshapes a view of first_column and binds new arrays
eigenvalues_BCCB_arguments(BCCB0, ordering) == BCCB0

\* ---------------------------------------------------- transposition_factor
\* transposition_factor with the sign of the block level only
transposition_factorBlocksOnly(symmetry) ==
  IF symmetry \notin PureSymmetries THEN Raise("ValueError")
  ELSE IF symmetry = "skew-skew" THEN Ok(-1)
  ELSE IF symmetry = "skew-symm" THEN Ok(1)
  ELSE IF symmetry = "symm-skew" THEN Ok(-1)
  ELSE Ok(1)

\* transposition_factor with +1 as the value of every tag it has no sign for
transposition_factorDefault(symmetry) ==
  IF symmetry = "skew-symm" THEN Ok(-1)
  ELSE IF symmetry = "symm-skew" THEN Ok(-1)
  ELSE Ok(1)

transposition_factor(symmetry) ==
  IF symmetry \notin PureSymmetries THEN Raise("ValueError")
  ELSE IF symmetry = "skew-skew" THEN Ok(1)
  ELSE IF symmetry = "skew-symm" THEN Ok(-1)
  ELSE IF symmetry = "symm-skew" THEN Ok(-1)
  ELSE Ok(1)

\* ----------------------------------------------------- product_BCCB_vector
\* check.is_array(x=L, ndim=2, shape=(n, m))
is_array_shape(L, n, m) == Len(L) = n /\ \A i \in 1..Len(L) : Len(L[i]) = m

\* PaddedGrid with the zeros put before v instead of after it
PaddedGridLeading(v, nblocks, npoints_per_block, ordering) ==
  IF ordering = "row"
    THEN Zeros2(nblocks, 2 * npoints_per_block)
           \o [i \in 1..nblocks |->
                Zeros(npoints_per_block) \o Reshape(v, nblocks, npoints_per_block)[i]]
    ELSE Zeros2(npoints_per_block, 2 * nblocks)
           \o [i \in 1..npoints_per_block |->
                Zeros(nblocks) \o Transpose(Reshape(v, nblocks, npoints_per_block))[i]]

\* the zero-padded grid V
PaddedGrid(v, nblocks, npoints_per_block, ordering) ==
  IF ordering = "row"
    THEN PadBelow(PadRight(Reshape(v, nblocks, npoints_per_block), npoints_per_block),
                  nblocks)
    ELSE PadBelow(PadRight(Transpose(Reshape(v, nblocks, npoints_per_block)), nblocks),
                  npoints_per_block)

\* ExtractProduct without the transposition back of the column ordering
ExtractProductUntransposed(H, nblocks, npoints_per_block, ordering) ==
  IF ordering = "row"
    THEN Ravel(TopLeft(RealPart(ifft2_ortho(H)), nblocks, npoints_per_block))
    ELSE Ravel(TopLeft(RealPart(ifft2_ortho(H)), npoints_per_block, nblocks))

\* ExtractProduct keeping the whole grid instead of its first quadrant
ExtractProductWholeGrid(H, nblocks, npoints_per_block, ordering) ==
  IF ordering = "row"
    THEN Ravel(RealPart(ifft2_ortho(H)))
    ELSE Ravel(Transpose(RealPart(ifft2_ortho(H))))

\* the first quadrant of the inverse transform, flattened
ExtractProduct(H, nblocks, npoints_per_block, ordering) ==
  IF ordering = "row"
    THEN Ravel(TopLeft(RealPart(ifft2_ortho(H)), nblocks, npoints_per_block))
    ELSE Ravel(Transpose(TopLeft(RealPart(ifft2_ortho(H)), npoints_per_block, nblocks)))

product_BCCB_vector(BCCB_eigen, v, check_input) ==
  \* L, ordering, nblocks, npoints_per_block are bound inside the validation
  \* block only: without it the first use of ordering finds no such local
  IF ~check_input THEN Raise("UnboundLocalError")
  ELSE IF BCCB_eigen.keys # BCCB_eigen_keys THEN Raise("ValueError")
  ELSE
    LET L == BCCB_eigen.eigenvalues
        ordering == BCCB_eigen.ordering
        nblocks == BCCB_eigen.nblocks
        npoints_per_block == BCCB_eigen.npoints_per_block
    IN
    IF ordering \notin Orderings THEN Raise("ValueError")
    ELSE IF ~is_integer_positive(nblocks) THEN Raise("ValueError")
    ELSE IF ~is_integer_positive(npoints_per_block) THEN Raise("ValueError")
    ELSE IF ordering = "row" /\ ~is_array_shape(L.data, 2 * nblocks, 2 * npoints_per_block)
      THEN Raise("ValueError")
    ELSE IF ordering # "row" /\ ~is_array_shape(L.data, 2 * npoints_per_block, 2 * nblocks)
      THEN Raise("ValueError")
    ELSE IF ~(is_array_1d(v) /\ Len(v) = nblocks * npoints_per_block)
      THEN Raise("ValueError")
    ELSE
      LET V == PaddedGrid(v, nblocks, npoints_per_block, ordering)
          H == Hadamard(L, fft2_ortho(V))
      IN Ok(ExtractProduct(H, nblocks, npoints_per_block, ordering))

\* product_BCCB_vector_arguments of a body that squares L in place
product_BCCB_vector_argumentsInPlace(BCCB_eigen, v) ==
  [BCCB_eigen |->
     [BCCB_eigen EXCEPT !.eigenvalues.data =
        Hadamard(BCCB_eigen.eigenvalues, BCCB_eigen.eigenvalues).data],
   v |-> v]

\* the arguments as product_BCCB_vector leaves them: V, H and w are new
\* arrays, nothing is written into L or v
product_BCCB_vector_arguments(BCCB_eigen, v) == [BCCB_eigen |-> BCCB_eigen, v |-> v]

\* ---------------------------------------------------------- BCCB_from_BTTB
\* a call Circulant_from_Toeplitz(*args) with positional arguments only:
\* symmetry, column and row have no default, full and check_input are True
CallCirculant(args) ==
  IF Len(args) < 3 THEN Raise("TypeError")
  ELSE Circulant_from_Toeplitz(args[1], args[2], args[3], TRUE, TRUE)

\* the exception of the first call that raised, "" when none did
RECURSIVE FirstException(_)
FirstException(results) ==
  IF Len(results) = 0 THEN ""
  ELSE IF Head(results).exc # "" THEN Head(results).exc
  ELSE FirstException(Tail(results))

\* C_blocks, given the list of embedded blocks
BCCBBlocks(nonull_blocks, nrows, nblocks, C_npoints_per_block) ==
  LET spacer == <<Zeros2(C_npoints_per_block, C_npoints_per_block)>>
  IN
  IF nrows = 2 * nblocks - 1 THEN
    IF StackFails(Take(nonull_blocks, nblocks)) \/ StackFails(Drop(nonull_blocks, nblocks))
      THEN Raise("ValueError")
      ELSE Ok(Take(nonull_blocks, nblocks) \o spacer \o Reverse(Drop(nonull_blocks, nblocks)))
  ELSE IF nrows = nblocks THEN
    IF StackFails(nonull_blocks) \/ StackFails(RevTail(nonull_blocks))
      THEN Raise("ValueError")
      ELSE Ok(nonull_blocks \o spacer \o RevTail(nonull_blocks))
  ELSE Raise("UnboundLocalError")

BCCB_from_BTTB(symmetry_structure, symmetry_blocks, nblocks, columns, rows, full, check_input) ==
  LET chk == IF check_input
               THEN BTTB_metadata(symmetry_structure, symmetry_blocks, nblocks, columns, rows)
               ELSE ""
      T_npoints_per_block == Len(columns[1])
      C_npoints_per_block == 2 * T_npoints_per_block
      calls == IF rows = None
                 THEN [k \in 1..Len(columns) |-> CallCirculant(<<columns[k]>>)]
                 ELSE [k \in 1..Len(columns) |-> CallCirculant(<<columns[k], rows[k]>>)]
      nonull_blocks == [k \in 1..Len(calls) |-> calls[k].val]
      C_blocks == BCCBBlocks(nonull_blocks, Len(columns), nblocks, C_npoints_per_block)
      nblocks_C == 2 * nblocks
  IN
  IF chk # "" THEN Raise(chk)
  ELSE IF full \notin BOOLEAN THEN Raise("ValueError")
  ELSE IF rows # None /\ Len(columns) # Len(rows) THEN Raise("ValueError")
  ELSE IF rows # None /\ Len(columns[1]) # Len(rows[1]) + 1 THEN Raise("ValueError")
  ELSE IF FirstException(calls) # "" THEN Raise(FirstException(calls))
  ELSE IF ~Returned(C_blocks) THEN Raise(C_blocks.exc)
  ELSE Ok(HStackHStack(Gather(C_blocks.val, OuterSumNegative(nblocks_C)),
                       nblocks_C, C_npoints_per_block))

\* ------------------------------------------------------------ the inputs
\* The tables of generating columns and rows a run starts from: a table of
\* pairwise distinct entries of alternating sign, the same table with the
\* leading elements, the diagonal block or both set to zero, and every table
\* with a single non-zero entry.
Sgn(n) == IF n % 2 = 0 THEN 1 ELSE -1

Masks == {"none", "lead", "diag", "both"}

Masked(mask, k, i, x) ==
  IF (mask \in {"lead", "both"} /\ i = 1) \/ (mask \in {"diag", "both"} /\ k = 1)
    THEN 0 ELSE x

DistinctColumns(N, P, mask) ==
  [k \in 1..N |-> [i \in 1..P |-> Masked(mask, k, i, Sgn(k + i) * ((k - 1) * P + i))]]

DistinctRows(N, P, mask) ==
  [k \in 1..N |->
    [i \in 1..(P - 1) |-> Masked(mask, k, 0, Sgn(k + i + 1) * (N * P + (k - 1) * (P - 1) + i))]]

IndicatorTable(N, P, k0, i0) ==
  [k \in 1..N |-> [i \in 1..P |-> IF k = k0 /\ i = i0 THEN 1 ELSE 0]]

\* the tables of the documented scenarios: the single column (2, 1), and the
\* 1 x 1 tables (a) with |a| <= MaxA
ScenarioTables(N, P) ==
  IF N = 1 /\ P = 2 THEN {<< <<2, 1>> >>}
  ELSE IF N = 1 /\ P = 1 THEN {<< <<a>> >> : a \in (0 - MaxA)..MaxA}
  ELSE {}

Fixtures(N, P, withRows) ==
  {[columns |-> DistinctColumns(N, P, m),
    rows |-> IF withRows THEN DistinctRows(N, P, m) ELSE None] : m \in Masks}
  \cup
  {[columns |-> IndicatorTable(N, P, kc[1], kc[2]),
    rows |-> IF withRows THEN IndicatorTable(N, P - 1, 0, 0) ELSE None] :
      kc \in (1..N) \X (1..P)}
  \cup
  (IF withRows
     THEN {[columns |-> IndicatorTable(N, P, 0, 0),
            rows |-> IndicatorTable(N, P - 1, kc[1], kc[2])] :
              kc \in (1..N) \X (1..(P - 1))}
     ELSE {})
  \cup
  {[columns |-> c, rows |-> IF withRows THEN IndicatorTable(N, P - 1, 0, 0) ELSE None] :
     c \in ScenarioTables(N, P)}

\* the vectors v a product is taken with: the unit vectors and (1, 2, .., n),
\* and every (x) with |x| <= MaxA for n = 1
Vectors(n) ==
  {[j \in 1..n |-> IF j = e THEN 1 ELSE 0] : e \in 1..n} \cup {[j \in 1..n |-> j]}
  \cup (IF n = 1 THEN {<<x>> : x \in (0 - MaxA)..MaxA} ELSE {})

\* the number of rows of a table for a structure symmetry
TableRows(symmetry_structure, nblocks) ==
  IF symmetry_structure = "gene" THEN 2 * nblocks - 1 ELSE nblocks

\* the tag of the whole BTTB, as embedding_BCCB_first_column takes it
SymmetryName(symmetry_structure, symmetry_blocks) ==
  symmetry_structure \o "-" \o symmetry_blocks

\* ------------------------------------------------------------------ state
VARIABLES
  spec,        \* the BTTB specification: symmetries, nblocks, columns, rows
  pc,          \* the call the caller makes next
  T,           \* generic_BTTB(spec)
  C_full,      \* Circulant_from_Toeplitz of the first block, full=True
  C_column,    \* Circulant_from_Toeplitz of the first block, full=False
  BCCB_full,   \* BCCB_from_BTTB(spec, full=True)
  BCCB_column, \* BCCB_from_BTTB(spec, full=False)
  factor,      \* transposition_factor(symmetry)
  BCCB0,       \* embedding_BCCB_first_column(columns.ravel(), ...)
  eigen_row,   \* eigenvalues_BCCB(BCCB0, "row")
  eigen_column,\* eigenvalues_BCCB(BCCB0, "column")
  v,           \* the vector of the products
  w_row,       \* product_BCCB_vector(eigen_row, v)
  w_column,    \* product_BCCB_vector(eigen_column, v)
  eigen_again, \* eigenvalues_BCCB(BCCB0, "row"), called a second time
  w_unchecked, \* product_BCCB_vector(eigen_row, v, check_input=False)
  w_again,     \* product_BCCB_vector(eigen_row, v), called after the other products
  probe        \* one call with arguments the caller got wrong, and its outcome

vars ==
  <<spec, pc, T, C_full, C_column, BCCB_full, BCCB_column, factor, BCCB0,
    eigen_row, eigen_column, v, w_row, w_column, eigen_again, w_unchecked, w_again,
    probe>>

\* no call with wrong arguments made
NoProbe == [fn |-> "", args |-> <<>>, result |-> Pending]

\* tags no function knows
UnknownTags == {"generic"}

\* an ordering eigenvalues_BCCB does not know
UnknownOrderings == {"diagonal"}

npoints == Len(spec.columns[1])

symmetry == SymmetryName(spec.symmetry_structure, spec.symmetry_blocks)

\* the first block of the table, as the arguments of Circulant_from_Toeplitz
first_column_of_table == spec.columns[1]

first_row_of_table == IF spec.rows = None THEN None ELSE spec.rows[1]

Init ==
  /\ \E s \in SymmetryTags, b \in SymmetryTags, Q \in 1..MaxQ, P \in 1..MaxP :
       \E f \in Fixtures(TableRows(s, Q), P, b = "gene") :
         spec = [symmetry_structure |-> s, symmetry_blocks |-> b, nblocks |-> Q,
                 columns |-> f.columns, rows |-> f.rows]
  /\ pc = "generic_BTTB"
  /\ T = Pending
  /\ C_full = Pending
  /\ C_column = Pending
  /\ BCCB_full = Pending
  /\ BCCB_column = Pending
  /\ factor = Pending
  /\ BCCB0 = Pending
  /\ eigen_row = Pending
  /\ eigen_column = Pending
  /\ v = None
  /\ w_row = Pending
  /\ w_column = Pending
  /\ eigen_again = Pending
  /\ w_unchecked = Pending
  /\ w_again = Pending
  /\ probe = NoProbe

Call_generic_BTTB ==
  /\ pc = "generic_BTTB"
  /\ T' = generic_BTTB(spec.symmetry_structure, spec.symmetry_blocks, spec.nblocks,
                       spec.columns, spec.rows, TRUE)
  /\ pc' = "Circulant_full"
  /\ UNCHANGED <<spec, C_full, C_column, BCCB_full, BCCB_column, factor, BCCB0,
                 eigen_row, eigen_column, v, w_row, w_column,
                 eigen_again, w_unchecked, w_again, probe>>

Call_Circulant_full ==
  /\ pc = "Circulant_full"
  /\ C_full' = Circulant_from_Toeplitz(spec.symmetry_blocks, first_column_of_table,
                                       first_row_of_table, TRUE, TRUE)
  /\ pc' = "Circulant_column"
  /\ UNCHANGED <<spec, T, C_column, BCCB_full, BCCB_column, factor, BCCB0,
                 eigen_row, eigen_column, v, w_row, w_column,
                 eigen_again, w_unchecked, w_again, probe>>

Call_Circulant_column ==
  /\ pc = "Circulant_column"
  /\ C_column' = Circulant_from_Toeplitz(spec.symmetry_blocks, first_column_of_table,
                                         first_row_of_table, FALSE, TRUE)
  /\ pc' = "BCCB_full"
  /\ UNCHANGED <<spec, T, C_full, BCCB_full, BCCB_column, factor, BCCB0,
                 eigen_row, eigen_column, v, w_row, w_column,
                 eigen_again, w_unchecked, w_again, probe>>

Call_BCCB_full ==
  /\ pc = "BCCB_full"
  /\ BCCB_full' = BCCB_from_BTTB(spec.symmetry_structure, spec.symmetry_blocks,
                                 spec.nblocks, spec.columns, spec.rows, TRUE, TRUE)
  /\ pc' = "BCCB_column"
  /\ UNCHANGED <<spec, T, C_full, C_column, BCCB_column, factor, BCCB0,
                 eigen_row, eigen_column, v, w_row, w_column,
                 eigen_again, w_unchecked, w_again, probe>>

Call_BCCB_column ==
  /\ pc = "BCCB_column"
  /\ BCCB_column' = BCCB_from_BTTB(spec.symmetry_structure, spec.symmetry_blocks,
                                   spec.nblocks, spec.columns, spec.rows, FALSE, TRUE)
  /\ pc' = "transposition_factor"
  /\ UNCHANGED <<spec, T, C_full, C_column, BCCB_full, factor, BCCB0,
                 eigen_row, eigen_column, v, w_row, w_column,
                 eigen_again, w_unchecked, w_again, probe>>

Call_transposition_factor ==
  /\ pc = "transposition_factor"
  /\ factor' = transposition_factor(symmetry)
  /\ pc' = "embedding"
  /\ UNCHANGED <<spec, T, C_full, C_column, BCCB_full, BCCB_column, BCCB0,
                 eigen_row, eigen_column, v, w_row, w_column,
                 eigen_again, w_unchecked, w_again, probe>>

\* a failed embedding leaves the caller nothing to diagonalise
Call_embedding ==
  /\ pc = "embedding"
  /\ BCCB0' = embedding_BCCB_first_column(Ravel(spec.columns), spec.nblocks, npoints,
                                          symmetry)
  /\ pc' = IF Returned(BCCB0') THEN "eigenvalues_row" ELSE "done"
  /\ UNCHANGED <<spec, T, C_full, C_column, BCCB_full, BCCB_column, factor,
                 eigen_row, eigen_column, v, w_row, w_column,
                 eigen_again, w_unchecked, w_again, probe>>

Call_eigenvalues_row ==
  /\ pc = "eigenvalues_row"
  /\ eigen_row' = eigenvalues_BCCB(BCCB0.val, "row")
  /\ BCCB0' = Ok(eigenvalues_BCCB_arguments(BCCB0.val, "row"))
  /\ pc' = "eigenvalues_column"
  /\ UNCHANGED <<spec, T, C_full, C_column, BCCB_full, BCCB_column, factor,
                 eigen_column, v, w_row, w_column,
                 eigen_again, w_unchecked, w_again, probe>>

Call_eigenvalues_column ==
  /\ pc = "eigenvalues_column"
  /\ eigen_column' = eigenvalues_BCCB(BCCB0.val, "column")
  /\ BCCB0' = Ok(eigenvalues_BCCB_arguments(BCCB0.val, "column"))
  /\ pc' = "eigenvalues_again"
  /\ UNCHANGED <<spec, T, C_full, C_column, BCCB_full, BCCB_column, factor,
                 eigen_row, v, w_row, w_column,
                 eigen_again, w_unchecked, w_again, probe>>

\* the caller diagonalises the same BCCB0 once more
Call_eigenvalues_again ==
  /\ pc = "eigenvalues_again"
  /\ eigen_again' = eigenvalues_BCCB(BCCB0.val, "row")
  /\ BCCB0' = Ok(eigenvalues_BCCB_arguments(BCCB0.val, "row"))
  /\ pc' = "product_row"
  /\ UNCHANGED <<spec, T, C_full, C_column, BCCB_full, BCCB_column, factor,
                 eigen_row, eigen_column, v, w_row, w_column, w_unchecked, w_again,
                 probe>>

Call_product_row ==
  /\ pc = "product_row"
  /\ Returned(eigen_row)
  /\ \E x \in Vectors(spec.nblocks * npoints) :
       /\ w_row' = product_BCCB_vector(eigen_row.val, x, TRUE)
       /\ v' = product_BCCB_vector_arguments(eigen_row.val, x).v
       /\ eigen_row' = Ok(product_BCCB_vector_arguments(eigen_row.val, x).BCCB_eigen)
  /\ pc' = "product_column"
  /\ UNCHANGED <<spec, T, C_full, C_column, BCCB_full, BCCB_column, factor, BCCB0,
                 eigen_column, w_column, eigen_again, w_unchecked, w_again, probe>>

Call_product_column ==
  /\ pc = "product_column"
  /\ Returned(eigen_column)
  /\ w_column' = product_BCCB_vector(eigen_column.val, v, TRUE)
  /\ v' = product_BCCB_vector_arguments(eigen_column.val, v).v
  /\ eigen_column' = Ok(product_BCCB_vector_arguments(eigen_column.val, v).BCCB_eigen)
  /\ pc' = "product_unchecked"
  /\ UNCHANGED <<spec, T, C_full, C_column, BCCB_full, BCCB_column, factor, BCCB0,
                 eigen_row, w_row, eigen_again, w_unchecked, w_again, probe>>

\* the same product with the validation switched off
Call_product_unchecked ==
  /\ pc = "product_unchecked"
  /\ w_unchecked' = product_BCCB_vector(eigen_row.val, v, FALSE)
  /\ v' = product_BCCB_vector_arguments(eigen_row.val, v).v
  /\ eigen_row' = Ok(product_BCCB_vector_arguments(eigen_row.val, v).BCCB_eigen)
  /\ pc' = "product_again"
  /\ UNCHANGED <<spec, T, C_full, C_column, BCCB_full, BCCB_column, factor, BCCB0,
                 eigen_column, w_row, w_column, eigen_again, w_again, probe>>

\* the first product once more, on the handle the earlier products shared
Call_product_again ==
  /\ pc = "product_again"
  /\ w_again' = product_BCCB_vector(eigen_row.val, v, TRUE)
  /\ v' = product_BCCB_vector_arguments(eigen_row.val, v).v
  /\ eigen_row' = Ok(product_BCCB_vector_arguments(eigen_row.val, v).BCCB_eigen)
  /\ pc' = "done"
  /\ UNCHANGED <<spec, T, C_full, C_column, BCCB_full, BCCB_column, factor, BCCB0,
                 eigen_column, w_row, w_column, eigen_again, w_unchecked, probe>>

\* ---- calls with arguments of another kind, each made instead of the calls
\* that would follow
Probed(fn, args, result) ==
  /\ probe' = [fn |-> fn, args |-> args, result |-> result]
  /\ pc' = "done"
  /\ UNCHANGED <<spec, T, C_full, C_column, BCCB_full, BCCB_column, factor, BCCB0,
                 eigen_row, eigen_column, v, w_row, w_column, eigen_again,
                 w_unchecked, w_again>>

\* generic_BTTB with at least one tag it does not know
Probe_generic_BTTB ==
  /\ pc = "generic_BTTB"
  /\ \E s \in {spec.symmetry_structure} \cup UnknownTags,
        b \in {spec.symmetry_blocks} \cup UnknownTags, chk \in BOOLEAN :
       /\ s \in UnknownTags \/ b \in UnknownTags
       /\ Probed("generic_BTTB",
                 [symmetry_structure |-> s, symmetry_blocks |-> b, check_input |-> chk],
                 generic_BTTB(s, b, spec.nblocks, spec.columns, spec.rows, chk))

\* Circulant_from_Toeplitz with a tag it does not know; a missing row is
\* passed only where the model tells it from an empty one (npoints > 1)
Probe_Circulant_from_Toeplitz ==
  /\ pc = "generic_BTTB"
  /\ spec.rows # None \/ npoints > 1
  /\ \E tag \in UnknownTags, full \in BOOLEAN, chk \in BOOLEAN :
       Probed("Circulant_from_Toeplitz",
              [symmetry |-> tag, full |-> full, check_input |-> chk],
              Circulant_from_Toeplitz(tag, first_column_of_table, first_row_of_table,
                                      full, chk))

\* transposition_factor with a tag that names no pair of symmetries
Probe_transposition_factor ==
  /\ pc = "generic_BTTB"
  /\ \E tag \in UnknownTags \cup SymmetryTags :
       Probed("transposition_factor", [symmetry |-> tag], transposition_factor(tag))

\* embedding_BCCB_first_column with another nblocks or another symmetry
Probe_embedding ==
  /\ pc = "generic_BTTB"
  /\ \E q \in 1..MaxQ, tag \in {symmetry, "symm-symm"} \cup UnknownTags :
       /\ q # spec.nblocks \/ tag # symmetry
       /\ Probed("embedding_BCCB_first_column",
                 [b0 |-> Ravel(spec.columns), nblocks |-> q,
                  npoints_per_block |-> npoints, symmetry |-> tag],
                 embedding_BCCB_first_column(Ravel(spec.columns), q, npoints, tag))

\* a handle made by hand: first_column (1, 2, .., n)
HandMade(n, nblocks, npoints_per_block, tag) ==
  [keys |-> BCCB0_keys, first_column |-> [m \in 1..n |-> m], nblocks |-> nblocks,
   npoints_per_block |-> npoints_per_block, symmetry |-> tag]

\* eigenvalues_BCCB on a hand-made handle: any tag, a first column that may
\* be too long, any ordering
Probe_eigenvalues ==
  /\ pc = "generic_BTTB"
  /\ \E tag \in {symmetry} \cup UnknownTags, extra \in {0, 1},
        ordering \in Orderings \cup UnknownOrderings :
       LET handle == HandMade(4 * spec.nblocks * npoints + extra, spec.nblocks,
                              npoints, tag)
       IN Probed("eigenvalues_BCCB", [BCCB0 |-> handle, ordering |-> ordering],
                 eigenvalues_BCCB(handle, ordering))

\* the keys of a dictionary whose items were inserted in another order:
\* backwards, or with the first two exchanged
Reorderings(keys) ==
  {Reverse(keys), [m \in 1..Len(keys) |-> IF m = 1 THEN keys[2] ELSE IF m = 2 THEN keys[1] ELSE keys[m]]}

\* eigenvalues_BCCB on the handle of the embedding, its items reinserted in
\* another order
Probe_eigenvalues_reordered ==
  /\ pc = "product_row"
  /\ Returned(BCCB0)
  /\ \E keys \in Reorderings(BCCB0.val.keys), ordering \in Orderings :
       LET handle == [BCCB0.val EXCEPT !.keys = keys]
       IN Probed("eigenvalues_BCCB", [BCCB0 |-> handle, ordering |-> ordering],
                 eigenvalues_BCCB(handle, ordering))

\* product_BCCB_vector on the row-ordered spectral handle, its items
\* reinserted in another order
Probe_product_reordered ==
  /\ pc = "product_column"
  /\ Returned(eigen_row)
  /\ \E keys \in Reorderings(eigen_row.val.keys) :
       LET handle == [eigen_row.val EXCEPT !.keys = keys]
       IN Probed("product_BCCB_vector", [BCCB_eigen |-> handle, v |-> v],
                 product_BCCB_vector(handle, v, TRUE))

Next ==
  \/ Call_generic_BTTB
  \/ Call_Circulant_full
  \/ Call_Circulant_column
  \/ Call_BCCB_full
  \/ Call_BCCB_column
  \/ Call_transposition_factor
  \/ Call_embedding
  \/ Call_eigenvalues_row
  \/ Call_eigenvalues_column
  \/ Call_eigenvalues_again
  \/ Call_product_row
  \/ Call_product_column
  \/ Call_product_unchecked
  \/ Call_product_again
  \/ Probe_generic_BTTB
  \/ Probe_Circulant_from_Toeplitz
  \/ Probe_transposition_factor
  \/ Probe_embedding
  \/ Probe_eigenvalues
  \/ Probe_eigenvalues_reordered
  \/ Probe_product_reordered

Spec == Init /\ [][Next]_vars

\* ----------------------------------------------------------- the claims
P_ == npoints

Q_ == spec.nblocks

Called(r) == r.exc # "pending"

IsPure == symmetry \in PureSymmetries

\* the dense transpose product transpose(T) @ x
TransposeMatVec(A, x) == MatVec(Transpose(A), x)

\* factor * w
Scaled(f, w) == [a \in 1..Len(w) |-> f * w[a]]

\* the Toeplitz matrix a column (and row) generates, entry by entry
DirectToeplitz(tag, column, row) ==
  [i \in 1..Len(column) |->
    [j \in 1..Len(column) |->
      IF i >= j THEN column[i - j + 1]
      ELSE IF tag = "symm" THEN column[j - i + 1]
      ELSE IF tag = "skew" THEN 0 - column[j - i + 1]
      ELSE row[j - i]]]

\* C1: for the four pure symmetries the fast product of the embedding built
\* from the flattened table, under either ordering, returns and equals the
\* dense product generic_BTTB(...) @ v.
C1_FastProductEqualsDense ==
  /\ (IsPure /\ Called(w_row)) =>
       /\ Returned(T)
       /\ Returned(w_row)
       /\ w_row.val = MatVec(T.val, v)
  /\ (IsPure /\ Called(w_column)) =>
       /\ Returned(w_column)
       /\ w_column.val = MatVec(T.val, v)

C1_Witness ==
  /\ Called(w_column)
  /\ symmetry = "skew-symm"
  /\ Q_ = MaxQ
  /\ P_ = MaxP
  /\ v = [j \in 1..(Q_ * P_) |-> j]
  /\ w_column.val = MatVec(T.val, v)
  /\ w_row.val = w_column.val
  /\ \E a \in 1..Len(w_row.val) : w_row.val[a] < 0
  /\ \E a \in 1..Len(w_row.val) : w_row.val[a] > 0

\* the fast product of the BCCB whose first column is c0
FastProductFrom(c0, ordering, x) ==
  product_BCCB_vector(
    eigenvalues_BCCB([keys |-> BCCB0_keys, first_column |-> c0, nblocks |-> Q_,
                      npoints_per_block |-> P_, symmetry |-> symmetry],
                     ordering).val,
    x, TRUE)

\* C2: for each of the nine symmetry combinations, the embedding built by
\* BCCB_from_BTTB, diagonalised and multiplied with v, equals
\* generic_BTTB(...) @ v.
C2_AssembledEmbeddingProduct ==
  Called(BCCB_column) =>
    /\ Returned(BCCB_column)
    /\ Returned(T)
    /\ \A ordering \in Orderings : \A x \in Vectors(Q_ * P_) :
         FastProductFrom(BCCB_column.val, ordering, x) = Ok(MatVec(T.val, x))

\* C3: the full circulant is 2P x 2P, each entry (i, j) is the entry
\* ((i - j) mod 2P, 0) of its first column, and its top-left P x P quadrant
\* is the Toeplitz matrix that column (and row) generate.
C3_FullCirculant ==
  Called(C_full) =>
    /\ Returned(C_full)
    /\ Len(C_full.val) = 2 * P_
    /\ \A i \in 1..(2 * P_) :
         /\ Len(C_full.val[i]) = 2 * P_
         /\ \A j \in 1..(2 * P_) :
              C_full.val[i][j] = C_full.val[((i - j) % (2 * P_)) + 1][1]
    /\ TopLeft(C_full.val, P_, P_)
         = DirectToeplitz(spec.symmetry_blocks, first_column_of_table, first_row_of_table)

C3_Witness ==
  /\ Returned(C_full)
  /\ spec.symmetry_blocks = "skew"
  /\ P_ = MaxP
  /\ C_full.val[1][P_] # 0
  /\ C_full.val[1][P_] = 0 - C_full.val[P_][1]
  /\ C_full.val[1][2] # C_full.val[1][P_]

\* the first row of the Toeplitz matrix without its diagonal element, as
\* the specification derives it
RowAsStated(tag, column, row) ==
  IF tag = "symm" THEN Reverse(Tail(column))
  ELSE IF tag = "skew" THEN Neg(Reverse(Tail(column)))
  ELSE row

\* the first row of the Toeplitz matrix without its diagonal element
RowOfToeplitz(tag, column, row) ==
  IF tag = "symm" THEN Tail(column)
  ELSE IF tag = "skew" THEN Neg(Tail(column))
  ELSE row

\* C4 as stated: with full=False the result is [column, 0, reversed(row)]
\* with row = reverse(column[1:]) for symm and -reverse(column[1:]) for skew.
C4_FirstColumnAsStated ==
  Called(C_column) =>
    /\ Returned(C_column)
    /\ C_column.val
         = first_column_of_table \o <<0>>
             \o Reverse(RowAsStated(spec.symmetry_blocks, first_column_of_table,
                                    first_row_of_table))

\* C4, amended: with full=False the result is the length-2P vector
\* [column, 0, reversed(row)] with row the supplied row for gene,
\* row = column[1:] for symm and row = -column[1:] for skew; column = [2, 1]
\* with symm gives [2, 1, 0, 1].
C4_FirstColumn ==
  /\ Called(C_column) =>
       /\ Returned(C_column)
       /\ Len(C_column.val) = 2 * P_
       /\ C_column.val
            = first_column_of_table \o <<0>>
                \o Reverse(RowOfToeplitz(spec.symmetry_blocks, first_column_of_table,
                                         first_row_of_table))
  /\ Circulant_from_Toeplitz("symm", <<2, 1>>, None, FALSE, TRUE) = Ok(<<2, 1, 0, 1>>)

C4_Witness ==
  /\ Returned(C_column)
  /\ spec.symmetry_blocks = "symm"
  /\ P_ = MaxP
  /\ C_column.val[2] # 0
  /\ C_column.val[2] # C_column.val[P_]
  /\ C_column.val[2 * P_] = C_column.val[2]

\* the generating block k (python index) of the table, entry by entry
DirectBlock(k) ==
  DirectToeplitz(spec.symmetry_blocks, spec.columns[k + 1],
                 IF spec.rows = None THEN None ELSE spec.rows[k + 1])

\* the BTTB matrix in the documented order of the table, entry by entry
DirectBTTB ==
  [a \in 1..(Q_ * P_) |->
    [b \in 1..(Q_ * P_) |->
      LET r == (a - 1) \div P_
          c == (b - 1) \div P_
          i == ((a - 1) % P_) + 1
          j == ((b - 1) % P_) + 1
      IN IF r >= c THEN DirectBlock(r - c)[i][j]
         ELSE IF spec.symmetry_structure = "symm" THEN DirectBlock(c - r)[i][j]
         ELSE IF spec.symmetry_structure = "skew" THEN 0 - DirectBlock(c - r)[i][j]
         ELSE DirectBlock(Q_ + (c - r) - 1)[i][j]]]

\* C5: for each of the nine symmetry combinations and every valid table,
\* generic_BTTB returns the (Q*P) x (Q*P) block Toeplitz matrix of Toeplitz
\* blocks that the table generates in the documented order.
C5_DenseBTTB ==
  Called(T) =>
    /\ Returned(T)
    /\ T.val = DirectBTTB

\* C6: for the four pure symmetries the first column of
\* embedding_BCCB_first_column equals the result of
\* BCCB_from_BTTB(..., full=False).
C6_CompactEqualsAssembled ==
  (IsPure /\ Called(BCCB0)) =>
    /\ Returned(BCCB0)
    /\ Returned(BCCB_column)
    /\ BCCB_column.val = BCCB0.val.first_column

\* C7: BCCB_from_BTTB returns a 1D sequence of 4*Q*P elements with
\* full=False and the dense (4*Q*P) x (4*Q*P) matrix with full=True.
C7_FullFlagDimensionality ==
  (Called(BCCB_full) /\ Called(BCCB_column)) =>
    /\ Returned(BCCB_column)
    /\ Returned(BCCB_full)
    /\ Len(BCCB_column.val) = 4 * Q_ * P_
    /\ is_array_1d(BCCB_column.val)
    /\ is_array_shape(BCCB_full.val, 4 * Q_ * P_, 4 * Q_ * P_)
    /\ BCCB_column.val # BCCB_full.val

\* C8 as stated: for every table of a pure symmetry and every v,
\* transposition_factor(s) times the fast product equals transpose(T) @ v.
C8_TransposeProductAsStated ==
  (IsPure /\ Called(w_column)) =>
    /\ Returned(factor)
    /\ Scaled(factor.val, w_row.val) = TransposeMatVec(T.val, v)
    /\ Scaled(factor.val, w_column.val) = TransposeMatVec(T.val, v)

\* the entries of the table that sit on a diagonal of a skew level are zero:
\* with skew blocks in a symmetric structure the leading element of every
\* column, with symmetric blocks in a skew structure the whole first column,
\* with both skew the leading elements of the columns after the first and
\* the elements of the first column after the leading one
SkewDiagonalsZero ==
  IF symmetry = "symm-skew" THEN \A k \in 1..Q_ : spec.columns[k][1] = 0
  ELSE IF symmetry = "skew-symm" THEN \A i \in 1..P_ : spec.columns[1][i] = 0
  ELSE IF symmetry = "skew-skew"
    THEN /\ \A k \in 2..Q_ : spec.columns[k][1] = 0
         /\ \A i \in 2..P_ : spec.columns[1][i] = 0
  ELSE TRUE

\* C8, amended: for every table of a pure symmetry whose entries on the
\* diagonals of a skew level are zero, and every v, transposition_factor(s)
\* times the fast product equals transpose(T) @ v.
C8_TransposeProduct ==
  (IsPure /\ SkewDiagonalsZero /\ Called(w_column)) =>
    /\ Returned(factor)
    /\ Returned(w_row)
    /\ Returned(w_column)
    /\ Scaled(factor.val, w_row.val) = TransposeMatVec(T.val, v)
    /\ Scaled(factor.val, w_column.val) = TransposeMatVec(T.val, v)

C8_Witness ==
  /\ Called(w_column)
  /\ symmetry = "symm-skew"
  /\ SkewDiagonalsZero
  /\ Q_ = MaxQ
  /\ P_ = MaxP
  /\ factor = Ok(-1)
  /\ \E a \in 1..Len(w_row.val) : w_row.val[a] # 0
  /\ Scaled(factor.val, w_row.val) = TransposeMatVec(T.val, v)
  /\ w_row.val # TransposeMatVec(T.val, v)

\* C9 as stated: the skew-skew matrix satisfies T = -transpose(T).
C9_SkewSkewAsStated ==
  (symmetry = "skew-skew" /\ Called(T)) =>
    /\ Returned(T)
    /\ \A a \in 1..(Q_ * P_) : \A b \in 1..(Q_ * P_) : T.val[a][b] = 0 - T.val[b][a]

\* C9, amended: in the skew-skew matrix the entry (r*P+i, c*P+j) is minus
\* its transposed entry when exactly one of r # c and i # j holds, and
\* equals its transposed entry when both hold.
C9_SkewSkew ==
  (symmetry = "skew-skew" /\ Called(T)) =>
    /\ Returned(T)
    /\ \A a \in 1..(Q_ * P_) : \A b \in 1..(Q_ * P_) :
         LET blocksDiffer == (a - 1) \div P_ # (b - 1) \div P_
             pointsDiffer == (a - 1) % P_ # (b - 1) % P_
         IN /\ (blocksDiffer /\ pointsDiffer) => T.val[a][b] = T.val[b][a]
            /\ (blocksDiffer # pointsDiffer) => T.val[a][b] = 0 - T.val[b][a]

C9_Witness ==
  /\ symmetry = "skew-skew"
  /\ Returned(T)
  /\ Q_ = MaxQ
  /\ P_ = MaxP
  /\ T.val[P_ + 2][1] # 0
  /\ T.val[P_ + 2][1] = T.val[1][P_ + 2]
  /\ T.val[2][1] # 0
  /\ T.val[2][1] = 0 - T.val[1][2]

\* C10: the symm-symm matrix satisfies T = transpose(T).
C10_SymmSymm ==
  (symmetry = "symm-symm" /\ Called(T)) =>
    /\ Returned(T)
    /\ T.val = Transpose(T.val)

C10_Witness ==
  /\ symmetry = "symm-symm"
  /\ Returned(T)
  /\ Q_ = MaxQ
  /\ P_ = MaxP
  /\ T.val[P_ + 2][1] # 0
  /\ T.val[P_ + 2][1] = T.val[1][P_ + 2]
  /\ T.val[P_ + 2][1] # T.val[P_ + 1][1]

\* a call that ended in an exception and returned nothing
Failed(r) == Called(r) /\ ~Returned(r) /\ r.val = None

\* C11: transposition_factor returns +1 for symm-symm, -1 for symm-skew, -1
\* for skew-symm, +1 for skew-skew; for every other argument (the five
\* combinations with a generic level, a single tag, an unknown tag) it raises
\* and returns nothing.
C11_TranspositionFactor ==
  /\ Called(factor) =>
       IF symmetry = "symm-symm" THEN factor = Ok(1)
       ELSE IF symmetry = "symm-skew" THEN factor = Ok(-1)
       ELSE IF symmetry = "skew-symm" THEN factor = Ok(-1)
       ELSE IF symmetry = "skew-skew" THEN factor = Ok(1)
       ELSE Failed(factor)
  /\ probe.fn = "transposition_factor" => Failed(probe.result)

C11_Witness == Called(factor) /\ symmetry = "skew-symm" /\ factor = Ok(-1)

\* the documented scenario: nblocks = 1, npoints_per_block = 2, symm-symm,
\* b0 = (2, 1)
C12_Scenario ==
  /\ spec.nblocks = 1
  /\ symmetry = "symm-symm"
  /\ spec.columns = << <<2, 1>> >>
  /\ Called(BCCB0)

\* C12 as stated: the first column of the scenario is (2,1,0,1, 0,0, 2,1).
C12_ScenarioAsStated ==
  C12_Scenario => Returned(BCCB0) /\ BCCB0.val.first_column = <<2, 1, 0, 1, 0, 0, 2, 1>>

\* C12, amended: the first column of the scenario has length 8 and is
\* (2,1,0,1, 0,0,0,0): the forward half-block, then the spacer of
\* 2 * npoints_per_block zeros, and no backward half-block since nblocks = 1.
C12_ScenarioFirstColumn ==
  C12_Scenario =>
    /\ Returned(BCCB0)
    /\ Len(BCCB0.val.first_column) = 8
    /\ BCCB0.val.first_column = <<2, 1, 0, 1, 0, 0, 0, 0>>

C12_Witness == C12_Scenario /\ BCCB0.val.first_column[4] = 1 /\ BCCB0.val.first_column[8] = 0

\* C13: for a valid spectral handle and a v of length Q*P, the product with
\* check_input=False returns what the product with check_input=True returns.
C13_UncheckedEqualsChecked ==
  (Called(w_unchecked) /\ Returned(w_row)) => w_unchecked = w_row

Shape(X) == <<Len(X), Len(X[1])>>

\* C15: for nblocks = 1, npoints_per_block = 1 and b0 = (a), with any of the
\* four pure symmetries, the first column is (a, 0, 0, 0), the eigenvalue
\* matrix has shape (2, 2), and the product with v = (x) is (a * x).
C15_ScalarCase ==
  (Q_ = 1 /\ P_ = 1 /\ IsPure) =>
    LET a == spec.columns[1][1] IN
    /\ Called(BCCB0) => Returned(BCCB0) /\ BCCB0.val.first_column = <<a, 0, 0, 0>>
    /\ Called(eigen_row) =>
         Returned(eigen_row) /\ Shape(eigen_row.val.eigenvalues.data) = <<2, 2>>
    /\ Called(eigen_column) =>
         Returned(eigen_column) /\ Shape(eigen_column.val.eigenvalues.data) = <<2, 2>>
    /\ Called(w_row) => w_row = Ok(<<a * v[1]>>)
    /\ Called(w_column) => w_column = Ok(<<a * v[1]>>)

C15_Witness ==
  /\ Q_ = 1
  /\ P_ = 1
  /\ symmetry = "skew-symm"
  /\ spec.columns[1][1] = 0 - 2
  /\ v = <<2>>
  /\ w_column = Ok(<<0 - 4>>)

\* what C16 says of one call embedding_BCCB_first_column(b0, q, p, tag) = r
EmbeddingOutcome(b0, q, p, tag, r) ==
  IF Len(b0) # q * p \/ tag \notin {"skew-skew", "skew-symm", "symm-skew", "symm-symm"}
    THEN Failed(r)
    ELSE /\ Returned(r)
         /\ Len(r.val.first_column) = 4 * q * p
         /\ r.val.nblocks = q
         /\ r.val.npoints_per_block = p
         /\ r.val.symmetry = tag

\* C16: embedding_BCCB_first_column raises, and returns no handle, when b0
\* has not nblocks * npoints_per_block elements or the symmetry is not
\* one of the four pure tags; otherwise it returns a handle whose
\* first_column has 4 * nblocks * npoints_per_block elements and whose
\* nblocks, npoints_per_block and symmetry are the arguments.
C16_EmbeddingOutcome ==
  /\ Called(BCCB0) => EmbeddingOutcome(Ravel(spec.columns), Q_, P_, symmetry, BCCB0)
  /\ probe.fn = "embedding_BCCB_first_column" =>
       EmbeddingOutcome(probe.args.b0, probe.args.nblocks, probe.args.npoints_per_block,
                        probe.args.symmetry, probe.result)

\* a pure tag, but a b0 of another size
C16_Witness ==
  /\ probe.fn = "embedding_BCCB_first_column"
  /\ probe.args.symmetry = "skew-symm"
  /\ Len(probe.args.b0) = 6
  /\ probe.args.nblocks = 3
  /\ probe.args.npoints_per_block = 3
  /\ probe.result = Raise("ValueError")

\* the nine symmetry tags of a handle, as the claim lists them
NineTags ==
  {"skew-skew", "skew-symm", "symm-skew", "symm-symm", "gene-symm", "symm-gene",
   "gene-skew", "skew-gene", "gene-gene"}

\* what C17 says of one call eigenvalues_BCCB(handle, ordering) = r
EigenvaluesOutcome(handle, ordering, r) ==
  IF \/ Len(handle.first_column) # 4 * handle.nblocks * handle.npoints_per_block
     \/ handle.symmetry \notin NineTags
     \/ ordering \notin {"row", "column"}
    THEN Failed(r)
    ELSE handle.keys = <<"first_column", "nblocks", "npoints_per_block", "symmetry">>
           => Returned(r)

StructureSign == IF spec.symmetry_structure = "skew" THEN 0 - 1 ELSE 1

BlockSign == IF spec.symmetry_blocks = "skew" THEN 0 - 1 ELSE 1

\* entry m (from 0) of the first column, read off the table b_0 .. b_{Q-1}:
\* half-block m \div 2P at offset m % 2P; Q forward half-blocks
\* (bi, 0, t * reverse(bi[1:])), a spacer of 2P zeros, then the half-blocks of
\* b_{Q-1} down to b_1 with leading part u * bi and the trailing reflection
\* multiplied by backwardTail
FirstColumnEntry(m, backwardTail) ==
  LET B == m \div (2 * P_)
      o == m % (2 * P_)
      b == IF B < Q_ THEN spec.columns[B + 1] ELSE spec.columns[2 * Q_ - B + 1]
  IN
  IF B = Q_ \/ o = P_ THEN 0
  ELSE IF B < Q_
    THEN (IF o < P_ THEN b[o + 1] ELSE BlockSign * b[2 * P_ - o + 1])
    ELSE (IF o < P_ THEN StructureSign * b[o + 1] ELSE backwardTail * b[2 * P_ - o + 1])

\* C18 as stated: the trailing reflection of a backward half-block is
\* t * reverse(bi[1:]).
C18_HalfBlocksAsStated ==
  Returned(BCCB0) =>
    BCCB0.val.first_column = [m \in 1..(4 * Q_ * P_) |-> FirstColumnEntry(m - 1, BlockSign)]

\* C18, amended: forward half-blocks (bi, 0, t * reverse(bi[1:])), a spacer
\* of 2P zeros, and for b_{Q-1} down to b_1 the backward half-blocks
\* (u * bi, 0, u * t * reverse(bi[1:])): a skew structure negates the whole
\* half-block, its trailing reflection included.
C18_HalfBlocks ==
  Returned(BCCB0) =>
    BCCB0.val.first_column =
      [m \in 1..(4 * Q_ * P_) |-> FirstColumnEntry(m - 1, StructureSign * BlockSign)]

\* skew-symm: the last entry of the first column is -b_1[1], not +b_1[1]
C18_Witness ==
  /\ Returned(BCCB0)
  /\ symmetry = "skew-symm"
  /\ Q_ >= 2
  /\ P_ >= 2
  /\ spec.columns[2][2] # 0
  /\ BCCB0.val.first_column[4 * Q_ * P_] = 0 - spec.columns[2][2]

\* C19: a call of generic_BTTB or Circulant_from_Toeplitz with a symmetry tag
\* outside gene, symm, skew ends in an exception and returns no matrix,
\* whether check_input is on or off.
C19_UnknownTagRejected ==
  probe.fn \in {"generic_BTTB", "Circulant_from_Toeplitz"} => Failed(probe.result)

\* what C20 says of the handle r that eigenvalues_BCCB(h, ordering) returned
SpectralHandleOf(h, ordering, r) ==
  /\ Returned(r)
  /\ Shape(r.val.eigenvalues.data) =
       (IF ordering = "row" THEN <<2 * h.nblocks, 2 * h.npoints_per_block>>
        ELSE <<2 * h.npoints_per_block, 2 * h.nblocks>>)
  /\ r.val.ordering = ordering
  /\ r.val.nblocks = h.nblocks
  /\ r.val.npoints_per_block = h.npoints_per_block
  /\ r.val.symmetry = h.symmetry

\* C20: a handle returned by embedding_BCCB_first_column is accepted by
\* eigenvalues_BCCB for both orderings; the handle that returns has
\* eigenvalues of shape (2Q, 2P) for row and (2P, 2Q) for column, carries
\* ordering, nblocks, npoints_per_block and symmetry, and passes the
\* validation of product_BCCB_vector with every v of length Q * P.
C20_HandlesAccepted ==
  /\ Returned(BCCB0) =>
       /\ Called(eigen_row) => SpectralHandleOf(BCCB0.val, "row", eigen_row)
       /\ Called(eigen_column) => SpectralHandleOf(BCCB0.val, "column", eigen_column)
       /\ Called(w_row) => Returned(w_row) /\ Len(v) = Q_ * P_
       /\ Called(w_column) => Returned(w_column) /\ Len(v) = Q_ * P_
  /\ (probe.fn = "embedding_BCCB_first_column" /\ Returned(probe.result)) =>
       \A ordering \in {"row", "column"} :
         SpectralHandleOf(probe.result.val, ordering,
                          eigenvalues_BCCB(probe.result.val, ordering))

C20_Witness ==
  /\ Returned(BCCB0)
  /\ Returned(w_column)
  /\ Q_ = 3
  /\ P_ = 2
  /\ Shape(eigen_row.val.eigenvalues.data) = <<6, 4>>
  /\ Shape(eigen_column.val.eigenvalues.data) = <<4, 6>>

\* the grid X holds the matrix M in its top-left corner and zeros elsewhere
CornerOnly(X, M) ==
  \A i \in 1..Len(X) : \A j \in 1..Len(X[i]) :
    X[i][j] = (IF i <= Len(M) /\ j <= Len(M[1]) THEN M[i][j] ELSE 0)

\* C21: for every handle the embedding returned and every v of length Q * P,
\* the product through the row-ordered spectral handle equals the product
\* through the column-ordered one; v sits in the top-left Q x P corner
\* (row) or, transposed, in the top-left P x Q corner (column) of a grid
\* of zeros twice as large each way, and both outputs list the Q blocks
\* of P elements in the order of v.
C21_RowEqualsColumn ==
  (Returned(BCCB0) /\ Called(w_column)) =>
    /\ Returned(w_row)
    /\ Returned(w_column)
    /\ w_row.val = w_column.val
    /\ Len(w_row.val) = Len(v)
    /\ Shape(PaddedGrid(v, Q_, P_, "row")) = <<2 * Q_, 2 * P_>>
    /\ CornerOnly(PaddedGrid(v, Q_, P_, "row"), [k \in 1..Q_ |-> [i \in 1..P_ |-> v[(k - 1) * P_ + i]]])
    /\ Shape(PaddedGrid(v, Q_, P_, "column")) = <<2 * P_, 2 * Q_>>
    /\ CornerOnly(PaddedGrid(v, Q_, P_, "column"), [i \in 1..P_ |-> [k \in 1..Q_ |-> v[(k - 1) * P_ + i]]])

C21_Witness ==
  /\ Returned(w_column)
  /\ symmetry = "skew-skew"
  /\ Q_ = 2
  /\ P_ = 3
  /\ v = <<1, 2, 3, 4, 5, 6>>
  /\ w_row.val = w_column.val
  /\ w_row.val[2] # w_row.val[4]

\* the items of a dictionary with the keys ks, whatever their order
HasExactly(handle, ks) ==
  /\ Len(handle.keys) = Len(ks)
  /\ {handle.keys[m] : m \in 1..Len(handle.keys)} = {ks[m] : m \in 1..Len(ks)}

\* C22: eigenvalues_BCCB and product_BCCB_vector accept a dictionary that
\* holds exactly the required fields with valid values, whatever the order
\* in which the fields were inserted.
C22_KeyOrderIrrelevant ==
  /\ (/\ probe.fn = "eigenvalues_BCCB"
      /\ HasExactly(probe.args.BCCB0,
                    <<"first_column", "nblocks", "npoints_per_block", "symmetry">>)
      /\ Len(probe.args.BCCB0.first_column)
           = 4 * probe.args.BCCB0.nblocks * probe.args.BCCB0.npoints_per_block
      /\ probe.args.BCCB0.symmetry \in NineTags
      /\ probe.args.ordering \in {"row", "column"})
     => Returned(probe.result)
  /\ (/\ probe.fn = "product_BCCB_vector"
      /\ HasExactly(probe.args.BCCB_eigen,
                    <<"eigenvalues", "ordering", "nblocks", "npoints_per_block", "symmetry">>)
      /\ Len(probe.args.v) = Q_ * P_)
     => Returned(probe.result)

====
